---- MODULE Spec2Model ----
(***************************************************************************)
(* Model of rag_utils.py: feedback normalisation, tokenisation, keyword    *)
(* extraction, gap detection, query synthesis and lexical spec ranking.    *)
(*                                                                         *)
(* Python str values are TLA+ strings; they are taken apart character by   *)
(* character with Len, SubSeq and \o.  A dict is the sequence of its       *)
(* <<key, value>> items in insertion order.  The input alphabet is ASCII:  *)
(* the Hangul range of _TOKEN and the Korean entries of _STOP cannot be    *)
(* written as TLA+ string literals, and no input text contains them.       *)
(***************************************************************************)
EXTENDS Integers, Sequences, FiniteSets, TLC

VARIABLES pc, op, feedback, domain_profile, task_profile, group_specs,
          text, specs, queries, cap, norm_out, list_out, sel_out

vars == <<pc, op, feedback, domain_profile, task_profile, group_specs,
          text, specs, queries, cap, norm_out, list_out, sel_out>>

(***************************************************************************)
(* Bounds of the explored inputs.                                          *)
(***************************************************************************)
MaxFeedback == 2
MaxGroup == 1
MaxSpecs == 3
MaxCap == 3

(***************************************************************************)
(* Characters and Python str primitives.                                   *)
(***************************************************************************)
Digits == "0123456789"
Upper == "ABCDEFGHIJKLMNOPQRSTUVWXYZ"
Lower == "abcdefghijklmnopqrstuvwxyz"
\* the characters of the inputs, in code point order
Alphabet == " ,-." \o Digits \o Upper \o "_" \o Lower

Min(a, b) == IF a < b THEN a ELSE b
Max(a, b) == IF a > b THEN a ELSE b

CharAt(s, i) == SubSeq(s, i, i)
CharSet(s) == {CharAt(s, i) : i \in 1..Len(s)}
IndexIn(s, c) == CHOOSE i \in 1..Len(s) : CharAt(s, i) = c
Ord == [c \in CharSet(Alphabet) |-> IndexIn(Alphabet, c)]

DigitChars == CharSet(Digits)
UpperChars == CharSet(Upper)
Whitespace == {" "}

\* str.lower()
CharLower(c) == IF c \in UpperChars THEN CharAt(Lower, IndexIn(Upper, c)) ELSE c
RECURSIVE StrLower(_)
StrLower(s) == IF s = "" THEN "" ELSE CharLower(Head(s)) \o StrLower(Tail(s))

\* str.strip()
\* variant: at most one leading whitespace character is removed
LStrip_Once(s) == IF s # "" /\ Head(s) \in Whitespace THEN Tail(s) ELSE s
RECURSIVE LStrip(_)
LStrip(s) == IF s # "" /\ Head(s) \in Whitespace THEN LStrip(Tail(s)) ELSE s
RECURSIVE RStrip(_)
RStrip(s) ==
    IF s # "" /\ CharAt(s, Len(s)) \in Whitespace
    THEN RStrip(SubSeq(s, 1, Len(s) - 1)) ELSE s
Strip(s) == RStrip(LStrip(s))

\* sub in s
Contains(sub, s) ==
    \E i \in 1..(Len(s) - Len(sub) + 1) : SubSeq(s, i, i + Len(sub) - 1) = sub

\* str.isdigit()
IsDigit(s) == s # "" /\ \A i \in 1..Len(s) : CharAt(s, i) \in DigitChars

\* a < b on str (code point order)
RECURSIVE StrLess(_, _)
StrLess(a, b) ==
    IF b = "" THEN FALSE
    ELSE IF a = "" THEN TRUE
    ELSE IF Head(a) = Head(b) THEN StrLess(Tail(a), Tail(b))
    ELSE Ord[Head(a)] < Ord[Head(b)]

\* seq[:k], negative k counting from the end
PySlice(seq, k) ==
    IF k >= 0 THEN SubSeq(seq, 1, Min(k, Len(seq)))
    ELSE SubSeq(seq, 1, Max(Len(seq) + k, 0))

\* " ".join(seq)
RECURSIVE Join(_)
Join(seq) ==
    IF seq = <<>> THEN ""
    ELSE IF Len(seq) = 1 THEN seq[1]
    ELSE seq[1] \o " " \o Join(Tail(seq))

Range(seq) == {seq[i] : i \in 1..Len(seq)}

\* list(dict.fromkeys(seq))
RECURSIVE DedupFrom(_, _)
DedupFrom(seq, acc) ==
    IF seq = <<>> THEN acc
    ELSE DedupFrom(Tail(seq),
                   IF Head(seq) \in Range(acc) THEN acc ELSE Append(acc, Head(seq)))
Dedup(seq) == DedupFrom(seq, <<>>)

(***************************************************************************)
(* Tokenizer.                                                              *)
(***************************************************************************)
\* the character class of _TOKEN
TokenChars == CharSet(Upper \o Lower \o Digits \o "_")

\* _TOKEN.findall(s): the maximal runs of token characters of length >= 2
RECURSIVE FindAllFrom(_, _, _, _)
FindAllFrom(s, i, run, acc) ==
    LET flushed == IF Len(run) >= 2 THEN Append(acc, run) ELSE acc
    IN  IF i > Len(s) THEN flushed
        ELSE IF CharAt(s, i) \in TokenChars
             THEN FindAllFrom(s, i + 1, run \o CharAt(s, i), acc)
             ELSE FindAllFrom(s, i + 1, "", flushed)
FindAll(s) == FindAllFrom(s, 1, "", <<>>)

_STOP ==
    {"the", "and", "for", "with", "that", "this", "from", "into", "your",
     "have", "has", "are", "was", "were", "will", "shall", "should", "must",
     "may", "not", "but", "can", "could", "to", "of", "in", "on", "by", "as",
     "at", "it", "or", "be", "is", "a", "an", "we", "you", "they", "their",
     "our", "its", "over", "under", "more", "less", "than", "such",
     "spec", "specs", "some", "any", "many", "various", "thing", "things",
     "item", "items", "example", "examples", "policy", "policies",
     "requirement", "requirements", "group", "groups", "text", "texts"}

KeepToken(t) == ~(t \in _STOP) /\ ~IsDigit(t) /\ ~(Len(t) < 2)

RECURSIVE FilterTokens(_)
FilterTokens(toks) ==
    IF toks = <<>> THEN <<>>
    ELSE IF KeepToken(Head(toks))
         THEN <<Head(toks)>> \o FilterTokens(Tail(toks))
         ELSE FilterTokens(Tail(toks))

_tokens(s) ==
    IF s = "" THEN <<>>
    ELSE LET found == FindAll(s)
             toks == [i \in 1..Len(found) |-> StrLower(found[i])]
         IN  FilterTokens(toks)

(***************************************************************************)
(* Keyword extractor.                                                      *)
(***************************************************************************)
Count(seq, x) == Cardinality({i \in 1..Len(seq) : seq[i] = x})

\* variant: sort key -kv[1] alone, ties left in dict order
KeywordBefore_FreqOnly(a, b) == a[2] > b[2]
\* sort key (-kv[1], kv[0]) on the items <<word, count>> of freq
KeywordBefore(a, b) == a[2] > b[2] \/ (a[2] = b[2] /\ StrLess(a[1], b[1]))

\* sorted(): stable insertion sort by a strict order on keys
RECURSIVE InsertKeyword(_, _)
InsertKeyword(sorted, x) ==
    IF sorted = <<>> THEN <<x>>
    ELSE IF KeywordBefore(x, Head(sorted)) THEN <<x>> \o sorted
    ELSE <<Head(sorted)>> \o InsertKeyword(Tail(sorted), x)
RECURSIVE SortKeywords(_, _)
SortKeywords(items, acc) ==
    IF items = <<>> THEN acc
    ELSE SortKeywords(Tail(items), InsertKeyword(acc, Head(items)))

extract_keywords(t, max_k) ==
    LET toks == _tokens(t)
        keys == Dedup(toks)
        freq == [i \in 1..Len(keys) |-> <<keys[i], Count(toks, keys[i])>>]
        ranked == SortKeywords(freq, <<>>)
    IN  PySlice([i \in 1..Len(ranked) |-> ranked[i][1]], max_k)

(***************************************************************************)
(* Dicts: the sequence of <<key, value>> items in insertion order.         *)
(***************************************************************************)
DictKeys(d) == {d[i][1] : i \in 1..Len(d)}
DictValues(d) == [i \in 1..Len(d) |-> d[i][2]]
DictGet(d, k, default) ==
    IF k \in DictKeys(d)
    THEN d[CHOOSE i \in 1..Len(d) : d[i][1] = k][2]
    ELSE default
\* variant: out.setdefault(k, v), the first value of a key is kept
DictSet_FirstWins(d, k, v) == IF k \in DictKeys(d) THEN d ELSE Append(d, <<k, v>>)
\* d[k] = v: an existing key keeps its position and takes the new value
DictSet(d, k, v) ==
    IF k \in DictKeys(d)
    THEN [i \in 1..Len(d) |-> IF d[i][1] = k THEN <<k, v>> ELSE d[i]]
    ELSE Append(d, <<k, v>>)

(***************************************************************************)
(* Feedback normalizer.                                                    *)
(***************************************************************************)
\* the if/elif chain on lk
CanonicalKey(lk) ==
    IF Contains("cohesion", lk) THEN "cohesion"
    ELSE IF Contains("coverage", lk) THEN "coverage"
    ELSE IF Contains("redundancy", lk) THEN "redundancy"
    ELSE IF Contains("practical", lk) THEN "practicality"
    ELSE lk

RECURSIVE NormalizeFrom(_, _)
NormalizeFrom(items, out) ==
    IF items = <<>> THEN out
    ELSE LET k == Head(items)[1]
             v == Head(items)[2]
             lk == StrLower(Strip(k))
         IN  NormalizeFrom(Tail(items), DictSet(out, CanonicalKey(lk), v))

normalize_feedback_keys(comments) ==
    IF comments = <<>> THEN <<>> ELSE NormalizeFrom(comments, <<>>)

(***************************************************************************)
(* Gap detector.                                                           *)
(***************************************************************************)
\* Optional[List[...]]: None, or a list
None == [isNone |-> TRUE, items |-> <<>>]
Some(l) == [isNone |-> FALSE, items |-> l]

\* s.get('text', '')
SpecText(s) == IF "text" \in DOMAIN s THEN s.text ELSE ""

GroupTokens(gs) ==
    IF gs.isNone \/ gs.items = <<>> THEN {}
    ELSE UNION {Range(_tokens(SpecText(gs.items[i]))) : i \in 1..Len(gs.items)}


\* variant: without the dict.fromkeys pass over profile_tokens
_missing_profile_terms_NoDedup(gs, dp, tp, max_terms) ==
    LET profile_tokens == extract_keywords(dp, 32) \o extract_keywords(tp, 32)
        group_tokens == GroupTokens(gs)
        NotInGroup(t) == ~(t \in group_tokens)
        miss == SelectSeq(profile_tokens, NotInGroup)
    IN  PySlice(miss, max_terms)

_missing_profile_terms(gs, dp, tp, max_terms) ==
    LET profile_tokens == Dedup(extract_keywords(dp, 32) \o extract_keywords(tp, 32))
        group_tokens == GroupTokens(gs)
        NotInGroup(t) == ~(t \in group_tokens)
        miss == SelectSeq(profile_tokens, NotInGroup)
    IN  PySlice(miss, max_terms)

(***************************************************************************)
(* Query synthesizer.                                                      *)
(***************************************************************************)
\* for w in kw[:2]: q.append(first + w); q.append(second + w)
RECURSIVE TwoPerWord(_, _, _)
TwoPerWord(words, first, second) ==
    IF words = <<>> THEN <<>>
    ELSE <<first \o Head(words), second \o Head(words)>>
         \o TwoPerWord(Tail(words), first, second)

\* for a in prof_kw[:3]: for b in mix_src[:2]: q.append(f"{a} {b} requirements")
RECURSIVE HybridFor(_, _)
HybridFor(a, bs) ==
    IF bs = <<>> THEN <<>>
    ELSE <<a \o " " \o Head(bs) \o " requirements">> \o HybridFor(a, Tail(bs))
RECURSIVE Hybrid(_, _)
Hybrid(as, bs) ==
    IF as = <<>> THEN <<>>
    ELSE HybridFor(Head(as), bs) \o Hybrid(Tail(as), bs)

\* cov_kw or red_kw or prac_kw or coh_kw or missing_terms
FirstNonEmpty(lists) ==
    IF \E i \in 1..Len(lists) : lists[i] # <<>>
    THEN lists[CHOOSE i \in 1..Len(lists) :
                   lists[i] # <<>> /\ \A j \in 1..(i - 1) : lists[j] = <<>>]
    ELSE lists[Len(lists)]

\* variant: without the dict.fromkeys pass over prof_kw
ProfileKeywords_NoDedup(dp, tp) ==
    PySlice(extract_keywords(dp, 6) \o extract_keywords(tp, 6), 8)

\* prof_kw
ProfileKeywords(dp, tp) ==
    Dedup(PySlice(extract_keywords(dp, 6) \o extract_keywords(tp, 6), 8))

\* variant: the missing-term loop placed ahead of the facet loops
EmitQueries_MissingFirst(cov_kw, red_kw, prac_kw, coh_kw, missing_terms, prof_kw, mix_src) ==
    TwoPerWord(PySlice(missing_terms, 4), "coverage missing ", "best practices for ")
    \o TwoPerWord(PySlice(cov_kw, 2), "coverage gaps for ", "requirements to include ")
    \o TwoPerWord(PySlice(red_kw, 2), "deduplicate overlapping requirements ",
                  "merge similar policies ")
    \o TwoPerWord(PySlice(prac_kw, 2), "practical constraints and feasibility ",
                  "operational constraints ")
    \o TwoPerWord(PySlice(coh_kw, 2), "ensure group cohesion around ",
                  "align terminology for ")
    \o Hybrid(PySlice(prof_kw, 3), PySlice(mix_src, 2))

\* the appends to q, in program order
EmitQueries(cov_kw, red_kw, prac_kw, coh_kw, missing_terms, prof_kw, mix_src) ==
    TwoPerWord(PySlice(cov_kw, 2), "coverage gaps for ", "requirements to include ")
    \o TwoPerWord(PySlice(red_kw, 2), "deduplicate overlapping requirements ",
                  "merge similar policies ")
    \o TwoPerWord(PySlice(prac_kw, 2), "practical constraints and feasibility ",
                  "operational constraints ")
    \o TwoPerWord(PySlice(coh_kw, 2), "ensure group cohesion around ",
                  "align terminology for ")
    \o TwoPerWord(PySlice(missing_terms, 4), "coverage missing ", "best practices for ")
    \o Hybrid(PySlice(prof_kw, 3), PySlice(mix_src, 2))

\* the list q before the filter loop
Candidates(fb, dp, tp, gs) ==
    LET norm == normalize_feedback_keys(fb)
        cov_kw == extract_keywords(DictGet(norm, "coverage", ""), 4)
        red_kw == extract_keywords(DictGet(norm, "redundancy", ""), 4)
        prac_kw == extract_keywords(DictGet(norm, "practicality", ""), 4)
        coh_kw == extract_keywords(DictGet(norm, "cohesion", ""), 4)
        prof_kw == ProfileKeywords(dp, tp)
        missing_terms == _missing_profile_terms(gs, dp, tp, 8)
        or_src == FirstNonEmpty(<<cov_kw, red_kw, prac_kw, coh_kw, missing_terms>>)
        mix_src == IF or_src = <<>>
                   THEN extract_keywords(Join(DictValues(norm)), 4)
                   ELSE or_src
    IN  EmitQueries(cov_kw, red_kw, prac_kw, coh_kw, missing_terms, prof_kw, mix_src)

\* variant: a filter word that the tokenizer's stopword list does not have
GENERIC_Drifted ==
    {"spec", "specs", "some", "item", "items", "example", "examples", "policy",
     "policies", "requirement", "requirements", "constraint"}

GENERIC ==
    {"spec", "specs", "some", "item", "items", "example", "examples", "policy",
     "policies", "requirement", "requirements"}

\* the conditions of the filter loop that do not `continue`
Accepted(s, seen) ==
    LET qt == _tokens(s)
    IN  /\ s # ""
        /\ qt # <<>>
        /\ ~(\A i \in 1..Len(qt) : qt[i] \in GENERIC)
        /\ ~(Len(qt) < 2)
        /\ ~(s \in seen)

\* for item in q: ... ; the cap is tested after each append only
RECURSIVE FilterLoop(_, _, _)
FilterLoop(q, q_dedup, max_queries) ==
    IF q = <<>> THEN q_dedup
    ELSE LET s == Strip(Head(q))
         IN  IF Accepted(s, Range(q_dedup))
             THEN IF Len(q_dedup) + 1 >= max_queries
                  THEN Append(q_dedup, s)
                  ELSE FilterLoop(Tail(q), Append(q_dedup, s), max_queries)
             ELSE FilterLoop(Tail(q), q_dedup, max_queries)

build_retrieval_queries_from_feedback(fb, dp, tp, max_queries, gs) ==
    FilterLoop(Candidates(fb, dp, tp, gs), <<>>, max_queries)

(***************************************************************************)
(* Spec ranker.                                                            *)
(***************************************************************************)
_score_text_by_query_tokens(t, query) ==
    IF t = "" \/ query = "" THEN 0
    ELSE LET low == StrLower(t)
             toks == _tokens(query)
         IN  Cardinality({i \in 1..Len(toks) : toks[i] # "" /\ Contains(toks[i], low)})

RECURSIVE TotalScore(_, _)
TotalScore(txt, qs) ==
    IF qs = <<>> THEN 0
    ELSE _score_text_by_query_tokens(txt, Head(qs)) + TotalScore(txt, Tail(qs))

\* scored.sort(key=lambda x: x[0], reverse=True): stable, equal keys keep their order
\* variant: an equal key is placed ahead of the entries already sorted
RECURSIVE InsertScored_Unstable(_, _)
InsertScored_Unstable(sorted, x) ==
    IF sorted = <<>> THEN <<x>>
    ELSE IF x[1] >= Head(sorted)[1] THEN <<x>> \o sorted
    ELSE <<Head(sorted)>> \o InsertScored_Unstable(Tail(sorted), x)
RECURSIVE InsertScored(_, _)
InsertScored(sorted, x) ==
    IF sorted = <<>> THEN <<x>>
    ELSE IF x[1] > Head(sorted)[1] THEN <<x>> \o sorted
    ELSE <<Head(sorted)>> \o InsertScored(Tail(sorted), x)
RECURSIVE SortScored(_, _)
SortScored(items, acc) ==
    IF items = <<>> THEN acc
    ELSE SortScored(Tail(items), InsertScored(acc, Head(items)))

select_specs_by_queries(ss, qs, top_k) ==
    IF ss = <<>> \/ qs = <<>> THEN <<>>
    ELSE LET totals == [i \in 1..Len(ss) |-> <<TotalScore(SpecText(ss[i]), qs), ss[i]>>]
             Positive(x) == x[1] > 0
             scored == SortScored(SelectSeq(totals, Positive), <<>>)
             top == PySlice(scored, top_k)
         IN  [i \in 1..Len(top) |-> top[i][2]]

(***************************************************************************)
(* Inputs of the calls.                                                    *)
(***************************************************************************)
Texts ==
    {"", "alpha gamma", "Beta beta alpha, the spec 42", "x delta_1 Alpha-beta a1",
     "gamma alpha gamma beta"}
Caps == (0 - 2)..MaxCap

\* every list of at most n elements of S
SeqsUpTo(S, n) == UNION {[1..m -> S] : m \in 0..n}

\* a dict has no two items with the same key
IsDict(d) == \A i, j \in 1..Len(d) : d[i][1] = d[j][1] => i = j

RawKeys ==
    {"Coverage Notes", "COVERAGE", " cohesion ", "cohesion vs coverage",
     "Practical Concerns", "Redundancy", "  Other", "other"}
Comments == {"x", "y"}
FeedbackMaps == {d \in SeqsUpTo(RawKeys \X Comments, MaxFeedback) : IsDict(d)}

BuildItems ==
    {<<"Coverage Notes", "alpha">>, <<"Coverage Notes", "Beta beta alpha, the spec 42">>,
     <<"Redundancy", "Beta beta alpha, the spec 42">>, <<"Practical Concerns", "alpha">>,
     <<" cohesion ", "gamma alpha gamma beta">>, <<"other", "alpha">>}
BuildFeedback == {d \in SeqsUpTo(BuildItems, MaxFeedback) : IsDict(d)}
BuildCaps == {0 - 1, 0, 1, MaxCap, 8}
ProfilePairs ==
    {<<"", "">>, <<"alpha gamma", "">>, <<"alpha gamma", "gamma alpha gamma beta">>,
     <<"operational constraints", "alpha">>}

GroupPool == {[id |-> 1, text |-> "alpha beta"], [id |-> 2, text |-> "Gamma, alpha"], [id |-> 3]}
BuildGroups ==
    {None, Some(<<[id |-> 1, text |-> "alpha beta"]>>),
     Some(<<[id |-> 2, text |-> "Gamma, alpha"], [id |-> 1, text |-> "alpha beta"]>>)}
GroupArgs == {None} \cup {Some(l) : l \in SeqsUpTo(GroupPool, MaxGroup)}

SpecPool ==
    {[id |-> 1, text |-> "Alpha beta"], [id |-> 2, text |-> "alphabet gamma"], [id |-> 3]}
QueryLists ==
    {<<>>, <<"alpha">>, <<"alpha beta">>, <<"alpha beta", "GAMMA the alpha">>,
     <<"delta 42", "">>}

NoMap == <<>>
NoList == <<>>

InitNormalize ==
    /\ op = "normalize_feedback_keys"
    /\ feedback \in FeedbackMaps
    /\ cap = 0 /\ text = "" /\ domain_profile = "" /\ task_profile = ""
    /\ group_specs = None /\ specs = NoList /\ queries = NoList

InitKeywords ==
    /\ op = "extract_keywords"
    /\ text \in Texts
    /\ cap \in Caps
    /\ feedback = NoMap /\ domain_profile = "" /\ task_profile = ""
    /\ group_specs = None /\ specs = NoList /\ queries = NoList

InitMissing ==
    /\ op = "_missing_profile_terms"
    /\ group_specs \in GroupArgs
    /\ domain_profile \in Texts
    /\ task_profile \in Texts
    /\ cap \in Caps
    /\ feedback = NoMap /\ text = "" /\ specs = NoList /\ queries = NoList

InitBuild ==
    /\ op = "build_retrieval_queries_from_feedback"
    /\ feedback \in BuildFeedback
    /\ \E p \in ProfilePairs : domain_profile = p[1] /\ task_profile = p[2]
    /\ group_specs \in BuildGroups
    /\ cap \in BuildCaps
    /\ text = "" /\ specs = NoList /\ queries = NoList

InitSelect ==
    /\ op = "select_specs_by_queries"
    /\ specs \in SeqsUpTo(SpecPool, MaxSpecs)
    /\ queries \in QueryLists
    /\ cap \in Caps
    /\ feedback = NoMap /\ text = "" /\ domain_profile = "" /\ task_profile = ""
    /\ group_specs = None

Init ==
    /\ pc = "call"
    /\ norm_out = NoMap /\ list_out = NoList /\ sel_out = NoList
    /\ \/ InitNormalize
       \/ InitKeywords
       \/ InitMissing
       \/ InitBuild
       \/ InitSelect

(***************************************************************************)
(* The calls.                                                              *)
(***************************************************************************)
Inputs == <<op, feedback, domain_profile, task_profile, group_specs, text, specs,
            queries, cap>>

CallNormalize ==
    /\ pc = "call" /\ op = "normalize_feedback_keys"
    /\ norm_out' = normalize_feedback_keys(feedback)
    /\ pc' = "return"
    /\ UNCHANGED <<Inputs, list_out, sel_out>>

CallExtractKeywords ==
    /\ pc = "call" /\ op = "extract_keywords"
    /\ list_out' = extract_keywords(text, cap)
    /\ pc' = "return"
    /\ UNCHANGED <<Inputs, norm_out, sel_out>>

CallMissing ==
    /\ pc = "call" /\ op = "_missing_profile_terms"
    /\ list_out' = _missing_profile_terms(group_specs, domain_profile, task_profile, cap)
    /\ pc' = "return"
    /\ UNCHANGED <<Inputs, norm_out, sel_out>>

CallBuild ==
    /\ pc = "call" /\ op = "build_retrieval_queries_from_feedback"
    /\ list_out' = build_retrieval_queries_from_feedback(
                       feedback, domain_profile, task_profile, cap, group_specs)
    /\ pc' = "return"
    /\ UNCHANGED <<Inputs, norm_out, sel_out>>

CallSelect ==
    /\ pc = "call" /\ op = "select_specs_by_queries"
    /\ sel_out' = select_specs_by_queries(specs, queries, cap)
    /\ pc' = "return"
    /\ UNCHANGED <<Inputs, norm_out, list_out>>

Next ==
    \/ CallNormalize
    \/ CallExtractKeywords
    \/ CallMissing
    \/ CallBuild
    \/ CallSelect

Spec == Init /\ [][Next]_vars

Returned(name) == pc = "return" /\ op = name

(***************************************************************************)
(* Properties.                                                             *)
(***************************************************************************)
Distinct(seq) == \A i, j \in 1..Len(seq) : seq[i] = seq[j] => i = j
IsPrefix(a, b) == Len(a) <= Len(b) /\ a = SubSeq(b, 1, Len(a))
FirstIndex(seq, x) == CHOOSE i \in 1..Len(seq) : seq[i] = x /\ \A j \in 1..(i - 1) : seq[j] # x
RECURSIVE SumSeq(_)
SumSeq(seq) == IF seq = <<>> THEN 0 ELSE Head(seq) + SumSeq(Tail(seq))

BuildCandidates == Candidates(feedback, domain_profile, task_profile, group_specs)

\* C1: build_retrieval_queries_from_feedback returns at most max(max_queries, 0)
\* entries, no two of them equal, for every max_queries including 0 and negatives.
C1_AtMostCapDistinct ==
    Returned("build_retrieval_queries_from_feedback") =>
        Len(list_out) <= Max(cap, 0) /\ Distinct(list_out)

\* C2: every returned query tokenizes to at least 2 tokens, not all of them generic,
\* and the generic-token set is a subset of the tokenizer's stopword set.
C2_QueriesInformative ==
    /\ GENERIC \subseteq _STOP
    /\ Returned("build_retrieval_queries_from_feedback") =>
           \A i \in 1..Len(list_out) :
               LET qt == _tokens(list_out[i])
               IN  Len(qt) >= 2 /\ \E j \in 1..Len(qt) : ~(qt[j] \in GENERIC)

C2_Witness ==
    /\ Returned("build_retrieval_queries_from_feedback")
    /\ \E i \in 1..Len(list_out) : Len(_tokens(list_out[i])) = 2
    /\ \E i \in 1..Len(list_out) : Len(_tokens(list_out[i])) > 2

\* the score of C3: over all queries, the number of the query's tokens that occur
\* as a substring of the spec's lowercased text
ClaimScore(s) ==
    LET low == StrLower(SpecText(s))
        Hits(query) == LET qt == _tokens(query)
                       IN  Cardinality({k \in 1..Len(qt) : Contains(qt[k], low)})
    IN  SumSeq([n \in 1..Len(queries) |-> Hits(queries[n])])

\* C3: select_specs_by_queries returns no spec of score 0, scores are non-increasing
\* along the result, and returned specs of equal score keep their input order.
C3_RankedStable ==
    Returned("select_specs_by_queries") =>
        \E idx \in [1..Len(sel_out) -> 1..Len(specs)] :
            /\ \A i \in 1..Len(sel_out) : specs[idx[i]] = sel_out[i]
            /\ \A i \in 1..Len(sel_out) : ClaimScore(sel_out[i]) > 0
            /\ \A i, j \in 1..Len(sel_out) :
                   i < j => /\ ClaimScore(sel_out[i]) >= ClaimScore(sel_out[j])
                            /\ idx[i] # idx[j]
                            /\ ClaimScore(sel_out[i]) = ClaimScore(sel_out[j])
                                   => idx[i] < idx[j]

C3_Witness ==
    /\ Returned("select_specs_by_queries")
    /\ \E i, j \in 1..Len(sel_out) :
           /\ i < j
           /\ sel_out[i] # sel_out[j]
           /\ ClaimScore(sel_out[i]) = ClaimScore(sel_out[j])
    /\ \/ \E i, j \in 1..Len(sel_out) : ClaimScore(sel_out[i]) > ClaimScore(sel_out[j])
       \/ \E i \in 1..Len(specs) : ClaimScore(specs[i]) = 0

\* the ranking of C4: frequency in the text descending, then token ascending
RankedBefore(toks, a, b) ==
    \/ Count(toks, a) > Count(toks, b)
    \/ Count(toks, a) = Count(toks, b) /\ StrLess(a, b)

\* C4: for max_k >= 0, extract_keywords returns distinct tokens of the text in
\* (frequency descending, token ascending) order, exactly the first max_k of the
\* full ranking: no omitted token outranks a returned one.
C4_KeywordsRanked ==
    (Returned("extract_keywords") /\ cap >= 0) =>
        LET toks == _tokens(text)
        IN  /\ Range(list_out) \subseteq Range(toks)
            /\ Distinct(list_out)
            /\ Len(list_out) = Min(cap, Cardinality(Range(toks)))
            /\ \A i, j \in 1..Len(list_out) :
                   i < j => RankedBefore(toks, list_out[i], list_out[j])
            /\ \A t \in Range(toks) \ Range(list_out) :
                   \A i \in 1..Len(list_out) : RankedBefore(toks, list_out[i], t)

C4_Witness ==
    /\ Returned("extract_keywords")
    /\ Len(list_out) = cap
    /\ cap < Cardinality(Range(_tokens(text)))
    /\ \E i, j \in 1..Len(list_out) :
           /\ i < j
           /\ Count(_tokens(text), list_out[i]) = Count(_tokens(text), list_out[j])
           /\ FirstIndex(_tokens(text), list_out[i]) > FirstIndex(_tokens(text), list_out[j])

\* C5: a zero or negative cap gives an empty result: extract_keywords,
\* _missing_profile_terms and select_specs_by_queries each return at most
\* max(cap, 0) entries.
C5_NonPositiveCapEmpty ==
    /\ (Returned("extract_keywords") \/ Returned("_missing_profile_terms"))
           => Len(list_out) <= Max(cap, 0)
    /\ Returned("select_specs_by_queries") => Len(sel_out) <= Max(cap, 0)

\* dict equality: the same keys with the same values
DictEq(a, b) == Range(a) = Range(b)

\* C6: normalize_feedback_keys applied to its own output returns that output.
C6_NormalizeIdempotent ==
    Returned("normalize_feedback_keys") =>
        /\ IsDict(norm_out)
        /\ DictEq(normalize_feedback_keys(norm_out), norm_out)

C6_Witness ==
    /\ Returned("normalize_feedback_keys")
    /\ Len(norm_out) >= 2
    /\ DictKeys(norm_out) \cap DictKeys(feedback) = {}

\* the facet of C7 for a raw key
ClaimFacet(k) ==
    LET lk == StrLower(Strip(k))
    IN  CASE Contains("cohesion", lk) -> "cohesion"
          [] ~Contains("cohesion", lk) /\ Contains("coverage", lk) -> "coverage"
          [] ~Contains("cohesion", lk) /\ ~Contains("coverage", lk)
                 /\ Contains("redundancy", lk) -> "redundancy"
          [] ~Contains("cohesion", lk) /\ ~Contains("coverage", lk)
                 /\ ~Contains("redundancy", lk) /\ Contains("practical", lk) -> "practicality"
          [] OTHER -> lk

\* C7: each raw key goes to its facet (first match among cohesion, coverage,
\* redundancy, practical; else the trimmed lowercased key), and a facet holds the
\* value of the last raw key that maps to it.
C7_FacetLastWins ==
    Returned("normalize_feedback_keys") =>
        /\ IsDict(norm_out)
        /\ DictKeys(norm_out) = {ClaimFacet(feedback[i][1]) : i \in 1..Len(feedback)}
        /\ \A n \in 1..Len(norm_out) :
               LET from == {i \in 1..Len(feedback) : ClaimFacet(feedback[i][1]) = norm_out[n][1]}
                   last == CHOOSE i \in from : \A j \in from : j <= i
               IN  norm_out[n][2] = feedback[last][2]

C7_Witness ==
    /\ Returned("normalize_feedback_keys")
    /\ \E i, j \in 1..Len(feedback) :
           /\ i < j
           /\ ClaimFacet(feedback[i][1]) = ClaimFacet(feedback[j][1])
           /\ feedback[i][2] # feedback[j][2]
    /\ \E i \in 1..Len(feedback) :
           Contains("coverage", feedback[i][1]) /\ ClaimFacet(feedback[i][1]) = "cohesion"

\* C8: for max_terms >= 0, _missing_profile_terms returns the first max_terms of
\* the deduplicated domain-then-task keywords that are no token of a group spec;
\* no returned term is a group token and none is repeated.
C8_MissingTerms ==
    (Returned("_missing_profile_terms") /\ cap >= 0) =>
        LET profile == Dedup(extract_keywords(domain_profile, 32)
                             \o extract_keywords(task_profile, 32))
            group == IF group_specs.isNone THEN {}
                     ELSE UNION {Range(_tokens(SpecText(group_specs.items[i]))) :
                                     i \in 1..Len(group_specs.items)}
            InGroup(t) == t \in group
            NotInGroup(t) == ~InGroup(t)
            expected == SelectSeq(profile, NotInGroup)
        IN  /\ list_out = SubSeq(expected, 1, Min(cap, Len(expected)))
            /\ \A i \in 1..Len(list_out) : ~InGroup(list_out[i])
            /\ Distinct(list_out)
            /\ group = {} => IsPrefix(list_out, profile)

C8_Witness ==
    /\ Returned("_missing_profile_terms")
    /\ cap >= 1
    /\ list_out # <<>>
    /\ ~group_specs.isNone
    /\ \E i \in 1..Len(group_specs.items) :
           Range(_tokens(SpecText(group_specs.items[i])))
               \cap Range(_tokens(domain_profile)) # {}
    /\ Range(_tokens(domain_profile)) \cap Range(_tokens(task_profile)) # {}

\* template + one keyword
FitsTemplate(s, prefix) ==
    /\ Len(s) > Len(prefix)
    /\ SubSeq(s, 1, Len(prefix)) = prefix
    /\ LET w == SubSeq(s, Len(prefix) + 1, Len(s)) IN _tokens(w) = <<w>>

\* the generation stage a query string belongs to, read off its template
StageOf(s) ==
    IF FitsTemplate(s, "coverage gaps for ") \/ FitsTemplate(s, "requirements to include ")
    THEN 1
    ELSE IF FitsTemplate(s, "deduplicate overlapping requirements ")
            \/ FitsTemplate(s, "merge similar policies ")
    THEN 2
    ELSE IF FitsTemplate(s, "practical constraints and feasibility ")
            \/ FitsTemplate(s, "operational constraints ")
    THEN 3
    ELSE IF FitsTemplate(s, "ensure group cohesion around ")
            \/ FitsTemplate(s, "align terminology for ")
    THEN 4
    ELSE IF FitsTemplate(s, "coverage missing ") \/ FitsTemplate(s, "best practices for ")
    THEN 5
    ELSE 6

\* a candidate that the filter keeps, duplicates apart
PassesFilter(s) ==
    LET qt == _tokens(s)
    IN  s # "" /\ Len(qt) >= 2 /\ \E k \in 1..Len(qt) : ~(qt[k] \in GENERIC)

\* C9: the result keeps the generation order (coverage, redundancy, practicality,
\* cohesion, missing-term, hybrid), and a candidate is returned only if every
\* earlier candidate that passes the filter is returned too.
C9_GenerationOrder ==
    Returned("build_retrieval_queries_from_feedback") =>
        LET q == BuildCandidates
        IN  /\ Range(list_out) \subseteq Range(q)
            /\ \A i, j \in 1..Len(list_out) :
                   i < j => /\ StageOf(list_out[i]) <= StageOf(list_out[j])
                            /\ FirstIndex(q, list_out[i]) < FirstIndex(q, list_out[j])
            /\ \A j \in 1..Len(q) :
                   q[j] \in Range(list_out) =>
                       \A i \in 1..(j - 1) : PassesFilter(q[i]) => q[i] \in Range(list_out)

C9_Witness ==
    /\ Returned("build_retrieval_queries_from_feedback")
    /\ Len(list_out) < Len(BuildCandidates)
    /\ \E i, j, k \in 1..Len(list_out) :
           /\ StageOf(list_out[i]) < 5
           /\ StageOf(list_out[j]) = 5
           /\ StageOf(list_out[k]) = 6

\* C10: every generated candidate is non-empty, has at least 2 tokens, none of them
\* generic, and differs from every other candidate; for max_queries >= 1 the result
\* is the first max_queries candidates.
C10_FilterRejectsNothing ==
    Returned("build_retrieval_queries_from_feedback") =>
        LET q == BuildCandidates
        IN  /\ \A i \in 1..Len(q) :
                   /\ q[i] # "" /\ Strip(q[i]) = q[i]
                   /\ Len(_tokens(q[i])) >= 2
                   /\ Range(_tokens(q[i])) \cap GENERIC = {}
            /\ Distinct(q)
            /\ cap >= 1 => list_out = SubSeq(q, 1, Min(cap, Len(q)))

C10_Witness ==
    /\ Returned("build_retrieval_queries_from_feedback")
    /\ cap >= 1
    /\ Len(BuildCandidates) > cap
    /\ \E i \in 1..Len(list_out) : StageOf(list_out[i]) = 6
    /\ Range(_tokens(domain_profile)) \cap Range(_tokens(task_profile)) # {}
====
